---- MODULE Spec2Model ----
(***************************************************************************)
(* bundle-rs: a line classifier (src/src/syntax.rs) and a recursive        *)
(* module loader / writer (src/src/lib.rs).                                *)
(*                                                                         *)
(* A Rust String is modelled as a sequence of characters; a character is   *)
(* a one-element TLA+ string, except eAcute, which stands for a character  *)
(* whose UTF-8 encoding is two bytes long.  Offsets taken from a regex     *)
(* match and offsets used by a slice are BYTE offsets; chars().nth(k) is a *)
(* CHARACTER index.  Both are kept apart.                                  *)
(***************************************************************************)
EXTENDS Integers, Sequences, FiniteSets

VARIABLES
    \* ---- Bundle<F> and its FileSystem (lib.rs) ----
    files,          \* ModuleFileSystem: the files that exist, path -> content
    entry_module,   \* Bundle.entry_module
    loaded_tokens,  \* Bundle.loaded_tokens
    pc,             \* "idle", or "loading" while Bundle::load is on the call stack
    stack,          \* the activations of load_tokens, innermost last
    calls,          \* the open_submodule calls of the current / last load, in order
    load_result,    \* what the last Bundle::load returned
    output,         \* what the last Bundle::write put into its sink
    last_op,        \* the last Bundle operation that returned
    failures,       \* history: every failed load, with where the Resolver failed
    \* ---- parse_line applied to one input line (syntax.rs) ----
    in_line,        \* the String handed to parse_line
    token,          \* <<>> before the call, <<LineToken>> after it
    \* ---- one LineRefTokenizer (syntax.rs) ----
    tk,             \* the iterator: [line, start, size]
    tk_out,         \* the LineRefs next() has returned so far
    tk_done         \* next() has returned None

vars == <<files, entry_module, loaded_tokens, pc, stack, calls, load_result,
          output, last_op, failures, in_line, token, tk, tk_out, tk_done>>

bundle_vars == <<files, entry_module, loaded_tokens, pc, stack, calls,
                 load_result, output, last_op, failures>>
parse_vars == <<in_line, token>>
tok_vars == <<tk, tk_out, tk_done>>

----------------------------------------------------------------------------
(* Characters and strings *)

eAcute == "U+00E9"

\* char::len_utf8
Utf8Len(c) == IF c = eAcute THEN 2 ELSE 1

\* the bytes of one character
Utf8(c) == IF c = eAcute THEN <<"0xC3", "0xA9">> ELSE <<c>>

RECURSIVE as_bytes(_)
\* str::as_bytes
as_bytes(s) == IF s = <<>> THEN <<>> ELSE Utf8(Head(s)) \o as_bytes(Tail(s))

RECURSIVE ByteLen(_)
\* str::len: the length in bytes
ByteLen(s) == IF s = <<>> THEN 0 ELSE Utf8Len(Head(s)) + ByteLen(Tail(s))

\* regex \s (the white space of the model's alphabet)
IsSpace(c) == c \in {" ", "\t"}

Punctuation == {";", ":", ",", "{", "}", "/", ".", "(", ")", "\n", "\r"}

\* regex \w: every character of the model's alphabet that is neither white
\* space nor punctuation is a letter, a digit or an underscore
IsWord(c) == ~IsSpace(c) /\ c \notin Punctuation

Max(S) == CHOOSE x \in S : \A y \in S : y <= x
Min(S) == CHOOSE x \in S : \A y \in S : x <= y

\* the literal lit occurs in l right after its first i characters
StartsWithAt(l, i, lit) ==
    /\ i + Len(lit) <= Len(l)
    /\ \A k \in 1..Len(lit) : l[i + k] = lit[k]

\* a greedy \s* from character index i: the index it stops at
SkipWs(l, i) ==
    CHOOSE j \in i..Len(l) :
        /\ \A k \in (i + 1)..j : IsSpace(l[k])
        /\ j = Len(l) \/ ~IsSpace(l[j + 1])

\* a greedy \w* from character index i: the index it stops at
SkipWord(l, i) ==
    CHOOSE j \in i..Len(l) :
        /\ \A k \in (i + 1)..j : IsWord(l[k])
        /\ j = Len(l) \/ ~IsWord(l[j + 1])

----------------------------------------------------------------------------
(* LineRef *)

\* LineRef::new
LineRef(start, size) == [start |-> start, size |-> size]

\* LineRef::from_match: a match covering the characters lo+1..hi of line;
\* Match::start and Match::as_str().len() count bytes
from_match(line, m) ==
    LineRef(ByteLen(SubSeq(line, 1, m.lo)), ByteLen(SubSeq(line, m.lo + 1, m.hi)))

\* str::is_char_boundary
IsCharBoundary(line, b) ==
    \E k \in 0..Len(line) : ByteLen(SubSeq(line, 1, k)) = b

CharIndex(line, b) ==
    CHOOSE k \in 0..Len(line) : ByteLen(SubSeq(line, 1, k)) = b

\* LineRef::resolve_unchecked: &line[start..start + size].  <<s>> is the
\* slice s; <<>> is the panic of a slice that ends past the end of the line
\* or does not lie on character boundaries.
resolve_unchecked(r, line) ==
    IF /\ r.start + r.size <= ByteLen(line)
       /\ IsCharBoundary(line, r.start)
       /\ IsCharBoundary(line, r.start + r.size)
    THEN <<SubSeq(line, CharIndex(line, r.start) + 1,
                  CharIndex(line, r.start + r.size))>>
    ELSE <<>>

----------------------------------------------------------------------------
(* The four regular expressions.  Each returns <<>> when the line does not  *)
(* match and <<captures>> when it does; a capture group is [lo, hi], the    *)
(* characters lo+1..hi of the line.                                         *)

\* ^\s*(pub)?\s*mod (.+);
PUB_MOD_REGEX(l) ==
    LET i1 == SkipWs(l, 0)
        has_pub == StartsWithAt(l, i1, <<"p", "u", "b">>)
        i2 == IF has_pub THEN i1 + 3 ELSE i1
        i3 == SkipWs(l, i2)
        \* the greedy (.+) runs to the last ";" that leaves it one character
        semis == {q \in (i3 + 6)..Len(l) : l[q] = ";"}
    IN  IF StartsWithAt(l, i3, <<"m", "o", "d", " ">>) /\ semis # {}
        THEN <<[g1 |-> has_pub, g2 |-> [lo |-> i3 + 4, hi |-> Max(semis) - 1]]>>
        ELSE <<>>

RECURSIVE PathEnd(_, _)
\* (\w+::)*([\w]+); from character index i: the index where the path ends
\* (the ";" follows it), or -1
PathEnd(l, i) ==
    LET w == SkipWord(l, i)
    IN  IF w = i THEN -1
        ELSE IF StartsWithAt(l, w, <<":", ":">>) THEN PathEnd(l, w + 2)
        ELSE IF StartsWithAt(l, w, <<";">>) THEN w
        ELSE -1

\* ^\s*use\s*((\w+::)*([\w]+));
USE_SINGLE_REGEX(l) ==
    LET i1 == SkipWs(l, 0)
        i2 == SkipWs(l, i1 + 3)
        e == PathEnd(l, i2)
    IN  IF StartsWithAt(l, i1, <<"u", "s", "e">>) /\ e >= 0
        THEN <<[g1 |-> [lo |-> i2, hi |-> e]]>>
        ELSE <<>>

RECURSIVE LastSegment(_, _)
\* ((\w+)::)+\{ from character index i: the last iteration's (\w+), the one
\* group 3 keeps, as <<[lo, hi]>>; hi + 2 is the index of the "{"
LastSegment(l, i) ==
    LET w == SkipWord(l, i)
    IN  IF w = i \/ ~StartsWithAt(l, w, <<":", ":">>) THEN <<>>
        ELSE IF StartsWithAt(l, w + 2, <<"{">>) THEN <<[lo |-> i, hi |-> w]>>
        ELSE LastSegment(l, w + 2)

\* ^\s*use\s*(((\w+)::)+\{(.+)\};)
USE_MULTI_REGEX(l) ==
    LET i1 == SkipWs(l, 0)
        i2 == SkipWs(l, i1 + 3)
        seg == LastSegment(l, i2)
        b == seg[1].hi + 3      \* the index right after the "{"
        \* the greedy (.+) runs to the last "};" that leaves it one character
        closes == {q \in (b + 2)..(Len(l) - 1) : l[q] = "}" /\ l[q + 1] = ";"}
    IN  IF StartsWithAt(l, i1, <<"u", "s", "e">>) /\ seg # <<>> /\ closes # {}
        THEN <<[g3 |-> seg[1], g4 |-> [lo |-> b, hi |-> Max(closes) - 1]]>>
        ELSE <<>>

\* ^\s*(?P<line>.+?)\s*$
OTHER_LINE_REGEX(l) ==
    LET inked == {k \in 1..Len(l) : ~IsSpace(l[k])}
    IN  IF l = <<>> THEN <<>>
        ELSE IF inked # {}
        THEN <<[line |-> [lo |-> Min(inked) - 1, hi |-> Max(inked)]]>>
        \* only white space: the greedy \s* gives back one character to .+?
        ELSE <<[line |-> [lo |-> Len(l) - 1, hi |-> Len(l)]]>>

----------------------------------------------------------------------------
(* LineRefTokenizer *)

\* LineRefTokenizer::new
LineRefTokenizer(input) == [line |-> input, start |-> 0, size |-> 0]

\* self.line.chars().nth(k): <<c>> or <<>> (None)
nth(line, k) == IF k < Len(line) THEN <<line[k + 1]>> ELSE <<>>

\* yield_line_ref with the delimiter counted into the span
yield_line_ref_with_delimiter(t) ==
    [item |-> <<LineRef(t.start, t.size + 1)>>,
     t |-> [t EXCEPT !.start = t.start + t.size + 1, !.size = 0]]

\* LineRefTokenizer::yield_line_ref: the LineRef returned and the iterator after it
yield_line_ref(t) ==
    [item |-> <<LineRef(t.start, t.size)>>,
     t |-> [t EXCEPT !.start = t.start + t.size + 1, !.size = 0]]

RECURSIVE next_skips_one(_)
\* next with a space skipped only right after the delimiter
next_skips_one(t) ==
    LET c == nth(t.line, t.start + t.size)
    IN  IF c = <<",">> THEN yield_line_ref(t)
        ELSE IF c = <<" ">> /\ t.size = 0 /\ (t.start = 0 \/ t.line[t.start] = ",")
        THEN next_skips_one([t EXCEPT !.start = t.start + 1])
        ELSE IF c # <<>> THEN next_skips_one([t EXCEPT !.size = t.size + 1])
        ELSE IF t.size > 0 THEN yield_line_ref(t)
        ELSE [item |-> <<>>, t |-> t]

RECURSIVE next(_)
\* Iterator::next for LineRefTokenizer: item is <<LineRef>> or <<>> (None)
next(t) ==
    LET c == nth(t.line, t.start + t.size)
    IN  IF c = <<",">> THEN yield_line_ref(t)
        ELSE IF c = <<" ">> /\ t.size = 0
        THEN next([t EXCEPT !.start = t.start + 1])
        ELSE IF c # <<>> THEN next([t EXCEPT !.size = t.size + 1])
        ELSE IF t.size > 0 THEN yield_line_ref(t)
        ELSE [item |-> <<>>, t |-> t]

RECURSIVE collect(_)
\* Iterator::collect::<Vec<LineRef>>
collect(t) ==
    LET r == next(t)
    IN  IF r.item = <<>> THEN <<>> ELSE r.item \o collect(r.t)

----------------------------------------------------------------------------
(* parse_line *)

\* .map(|mut r| { r.start += line_ref.start; r })
AdjustNames(names, line_ref) ==
    [i \in 1..Len(names) |-> LineRef(names[i].start + line_ref.start, names[i].size)]

\* the names of a multi import: the tokenizer runs over the brace content
MultiNames(line, line_ref) ==
    AdjustNames(collect(LineRefTokenizer(resolve_unchecked(line_ref, line)[1])),
                line_ref)

\* the capture group of USE_MULTI_REGEX that parse_line takes as `parent`
ParentGroup(c) == c.g3

parse_line(line) ==
    LET m == PUB_MOD_REGEX(line)
        s == USE_SINGLE_REGEX(line)
        u == USE_MULTI_REGEX(line)
        o == OTHER_LINE_REGEX(line)
    IN  IF m # <<>>
        THEN [kind |-> "DeclareOtherModule", line |-> line,
              name |-> from_match(line, m[1].g2), is_pub |-> m[1].g1]
        ELSE IF s # <<>>
        THEN [kind |-> "UseModule", line |-> line,
              name |-> from_match(line, s[1].g1)]
        ELSE IF u # <<>>
        THEN [kind |-> "UseManyModules", line |-> line,
              names |-> MultiNames(line, from_match(line, u[1].g4)),
              parent |-> from_match(line, ParentGroup(u[1]))]
        ELSE IF o # <<>>
        THEN [kind |-> "OtherLine", line |-> line,
              trimmed_ref |-> from_match(line, o[1].line)]
        ELSE [kind |-> "OtherLine", line |-> line,
              trimmed_ref |-> LineRef(0, ByteLen(line))]

----------------------------------------------------------------------------
(* ModuleFileSystem *)

\* ModuleFileSystem.search_dirs, as the tests build it: one directory
search_dirs == << <<"r">> >>

\* the two candidate paths per search directory, in the order find() tries them
Candidates(relative_path, module_name) ==
    LET flat(src) == src \o relative_path \o <<"/">> \o module_name
                         \o <<".", "r", "s">>
        dir(src) == src \o relative_path \o <<"/">> \o module_name
                        \o <<"/", "m", "o", "d", ".", "r", "s">>
        RECURSIVE all(_)
        all(k) == IF k > Len(search_dirs) THEN <<>>
                  ELSE <<flat(search_dirs[k]), dir(search_dirs[k])>> \o all(k + 1)
    IN  all(1)

\* std::io::Error::new(ErrorKind::NotFound, "not found")
NotFoundError == [kind |-> "NotFound", msg |-> "not found"]

NoError == [kind |-> "", msg |-> ""]

\* ModuleFileSystem::open_submodule against the files fs (path -> content)
open_submodule(fs, relative_path, module_name) ==
    LET c == Candidates(relative_path, module_name)
        found == {k \in 1..Len(c) : c[k] \in DOMAIN fs}
    IN  IF found # {}
        THEN [ok |-> TRUE, reader |-> fs[c[Min(found)]], err |-> NoError]
        ELSE [ok |-> FALSE, reader |-> <<>>, err |-> NotFoundError]

\* one line of BufRead::lines: a "\r" before the "\n" goes with it
StripCR(l) ==
    IF l # <<>> /\ l[Len(l)] = "\r" THEN SubSeq(l, 1, Len(l) - 1) ELSE l

RECURSIVE lines(_)
\* BufRead::lines: the content cut at every "\n"; nothing follows a final "\n"
lines(content) ==
    LET nl == {k \in 1..Len(content) : content[k] = "\n"}
    IN  IF content = <<>> THEN <<>>
        ELSE IF nl = {} THEN <<content>>
        ELSE <<StripCR(SubSeq(content, 1, Min(nl) - 1))>>
             \o lines(SubSeq(content, Min(nl) + 1, Len(content)))

----------------------------------------------------------------------------
(* Bundle *)

\* a Module token that is not public
ModuleToken_private(module_name, module) ==
    [kind |-> "Module", name |-> module_name, is_pub |-> FALSE, tokens |-> module]

\* LineToken::Module as load_tokens builds it
ModuleToken(module_name, module) ==
    [kind |-> "Module", name |-> module_name, is_pub |-> TRUE, tokens |-> module]

\* the context replaced by the module entered instead of extended by it
ChildPath_not_accumulated(relative_path, module_name) == <<"/">> \o module_name

\* format!("{}/{}", relative_path, module_name)
ChildPath(relative_path, module_name) == relative_path \o <<"/">> \o module_name

\* the error wrapped with the module it was raised for
Propagate_annotated(e, relative_path, module_name) ==
    [kind |-> e.kind, msg |-> <<e.msg, relative_path, module_name>>]

\* the Err that `?` hands to the caller of load_tokens / load: the Resolver's
\* error e, converted by From<io::Error> for io::Error; the relative path and
\* the module name in scope at the `?` take no part
Propagate(e, relative_path, module_name) == e

\* the result of a load appended to the tokens of the load before
StoreResult_appended(previous, result) == previous \o result

\* self.loaded_tokens = self.load_tokens(..)?: the tokens after an Ok(result)
StoreResult(previous, result) == result

\* the tokens read before the error stored as the tree
TokensAfterErr_partial(previous, partial) == partial

\* self.loaded_tokens = self.load_tokens(..)?: the tokens after an Err, when
\* `?` has returned before the assignment; partial is what the outermost
\* activation had read
TokensAfterErr(previous, partial) == previous

\* result.push(t) for a token that is no declaration
PushToken(result, t) == Append(result, t)

\* an activation of load_tokens: its relative_path, the lines its reader has
\* not yielded yet, its result, and module_name while it waits for the
\* recursive call
Frame(relative_path, reader) ==
    [relative_path |-> relative_path, reader |-> lines(reader),
     result |-> <<>>, module_name |-> <<>>]

RECURSIVE write_tokens(_)
RECURSIVE write_token(_)
\* one iteration of the loop of Bundle::write_tokens
write_token(t) ==
    IF t.kind = "Module"
    THEN (IF t.is_pub = TRUE THEN <<"p", "u", "b", " ">> ELSE <<>>)
         \o <<"m", "o", "d", " ">> \o as_bytes(t.name) \o <<"{", "\n">>
         \o write_tokens(t.tokens)
         \o <<"}", "\n">>
    ELSE as_bytes(t.line) \o <<"\n">>

\* Bundle::write_tokens: the bytes the writer receives
write_tokens(tokens) ==
    IF tokens = <<>> THEN <<>>
    ELSE write_token(Head(tokens)) \o write_tokens(Tail(tokens))

Top == stack[Len(stack)]

\* Bundle::new
New(e) ==
    /\ pc = "idle"
    /\ entry_module' = e
    /\ loaded_tokens' = <<>>
    /\ load_result' = [status |-> "none", err |-> NoError]
    /\ output' = <<>>
    /\ calls' = <<>>
    /\ last_op' = "new"
    /\ UNCHANGED <<files, pc, stack, failures, parse_vars, tok_vars>>

\* Bundle::load, the entry module opens: load_tokens is entered
LoadOpen ==
    LET r == open_submodule(files, <<>>, entry_module)
    IN  /\ pc = "idle"
        /\ r.ok
        /\ pc' = "loading"
        /\ stack' = <<Frame(<<>>, r.reader)>>
        /\ calls' = <<[relative_path |-> <<>>, module_name |-> entry_module]>>
        /\ UNCHANGED <<files, entry_module, loaded_tokens, load_result, output,
                       last_op, failures, parse_vars, tok_vars>>

\* Bundle::load, the entry module does not open: `?` returns the error
LoadOpenFails ==
    LET r == open_submodule(files, <<>>, entry_module)
        e == Propagate(r.err, <<>>, entry_module)
    IN  /\ pc = "idle"
        /\ ~r.ok
        /\ calls' = <<[relative_path |-> <<>>, module_name |-> entry_module]>>
        /\ load_result' = [status |-> "err", err |-> e]
        /\ last_op' = "load"
        /\ failures' = failures \cup
               {[relative_path |-> <<>>, module_name |-> entry_module,
                 resolver_err |-> r.err, err |-> e]}
        /\ loaded_tokens' = TokensAfterErr(loaded_tokens, <<>>)
        /\ UNCHANGED <<files, entry_module, pc, stack, output, parse_vars,
                       tok_vars>>

\* load_tokens, one line that is no declaration
LoadLine ==
    /\ pc = "loading"
    /\ Top.reader # <<>>
    /\ LET t == parse_line(Head(Top.reader))
       IN  /\ t.kind # "DeclareOtherModule"
           /\ stack' = [stack EXCEPT ![Len(stack)] =
                  [@ EXCEPT !.reader = Tail(@), !.result = PushToken(@, t)]]
    /\ UNCHANGED <<files, entry_module, loaded_tokens, pc, calls, load_result,
                   output, last_op, failures, parse_vars, tok_vars>>

\* load_tokens, a declaration whose module opens: the recursive call starts
LoadDeclaration ==
    /\ pc = "loading"
    /\ Top.reader # <<>>
    /\ LET t == parse_line(Head(Top.reader))
           module_name == resolve_unchecked(t.name, t.line)[1]
           r == open_submodule(files, Top.relative_path, module_name)
       IN  /\ t.kind = "DeclareOtherModule"
           /\ r.ok
           /\ calls' = Append(calls, [relative_path |-> Top.relative_path,
                                      module_name |-> module_name])
           /\ stack' = Append(
                  [stack EXCEPT ![Len(stack)] =
                      [@ EXCEPT !.reader = Tail(@), !.module_name = module_name]],
                  Frame(ChildPath(Top.relative_path, module_name), r.reader))
    /\ UNCHANGED <<files, entry_module, loaded_tokens, pc, load_result, output,
                   last_op, failures, parse_vars, tok_vars>>

\* load_tokens, a declaration whose module does not open: `?` unwinds every
\* activation and Bundle::load returns the error
LoadDeclarationFails ==
    /\ pc = "loading"
    /\ Top.reader # <<>>
    /\ LET t == parse_line(Head(Top.reader))
           module_name == resolve_unchecked(t.name, t.line)[1]
           r == open_submodule(files, Top.relative_path, module_name)
           e == Propagate(r.err, Top.relative_path, module_name)
       IN  /\ t.kind = "DeclareOtherModule"
           /\ ~r.ok
           /\ calls' = Append(calls, [relative_path |-> Top.relative_path,
                                      module_name |-> module_name])
           /\ load_result' = [status |-> "err", err |-> e]
           /\ failures' = failures \cup
                  {[relative_path |-> Top.relative_path,
                    module_name |-> module_name,
                    resolver_err |-> r.err, err |-> e]}
    /\ loaded_tokens' = TokensAfterErr(loaded_tokens, stack[1].result)
    /\ stack' = <<>>
    /\ pc' = "idle"
    /\ last_op' = "load"
    /\ UNCHANGED <<files, entry_module, output, parse_vars, tok_vars>>

\* load_tokens returns Ok(result) to the activation that called it, which
\* pushes the Module token
LoadReturn ==
    /\ pc = "loading"
    /\ Top.reader = <<>>
    /\ Len(stack) > 1
    /\ LET caller == stack[Len(stack) - 1]
       IN  stack' = Append(
               SubSeq(stack, 1, Len(stack) - 2),
               [caller EXCEPT
                   !.result = Append(@, ModuleToken(caller.module_name, Top.result)),
                   !.module_name = <<>>])
    /\ UNCHANGED <<files, entry_module, loaded_tokens, pc, calls, load_result,
                   output, last_op, failures, parse_vars, tok_vars>>

\* the outermost load_tokens returns Ok(result): Bundle::load stores it
LoadDone ==
    /\ pc = "loading"
    /\ Top.reader = <<>>
    /\ Len(stack) = 1
    /\ loaded_tokens' = StoreResult(loaded_tokens, Top.result)
    /\ load_result' = [status |-> "ok", err |-> NoError]
    /\ stack' = <<>>
    /\ pc' = "idle"
    /\ last_op' = "load"
    /\ UNCHANGED <<files, entry_module, calls, output, failures, parse_vars,
                   tok_vars>>

\* Bundle::write into an empty sink
Write ==
    /\ pc = "idle"
    /\ output' = write_tokens(loaded_tokens)
    /\ last_op' = "write"
    /\ UNCHANGED <<files, entry_module, loaded_tokens, pc, stack, calls,
                   load_result, failures, parse_vars, tok_vars>>

----------------------------------------------------------------------------
(* The module trees the Bundle is run on *)

\* the depth of the deepest declared module below the entry file
MaxDepth == 3

\* the names a file declares, in the order it declares them
ChildNames == << <<"a">>, <<eAcute>> >>

\* the entry modules Bundle::new is given; no file is named z
RootName == <<"m">>
EntryNames == {RootName, ChildNames[1], <<"z">>}

\* the files that declare modules: the entry file and the files reached
\* through first declarations only, down to MaxDepth - 1
Declares(ch) == Len(ch) < MaxDepth /\ \A i \in 1..Len(ch) : ch[i] = 1

\* a module of the tree: the indices of the declarations that lead to it
Chains ==
    {ch \in UNION {[1..d -> 1..Len(ChildNames)] : d \in 0..MaxDepth} :
        Declares(SubSeq(ch, 1, Len(ch) - 1))}

RECURSIVE ChainPath(_)
\* the relative path of the file a chain leads to, "/n1/../nk"
ChainPath(ch) ==
    IF ch = <<>> THEN <<>>
    ELSE ChainPath(SubSeq(ch, 1, Len(ch) - 1)) \o <<"/">> \o ChildNames[ch[Len(ch)]]

RECURSIVE Join(_, _)
Join(ls, sep) ==
    IF ls = <<>> THEN <<>>
    ELSE IF Len(ls) = 1 THEN ls[1]
    ELSE ls[1] \o sep \o Join(Tail(ls), sep)

\* the text of the file of a module: a line of its own, its declarations
\* (one `pub`, one indented and private, an empty line between them), white
\* space, imports; the line ending and the final line differ with the depth
ChainLines(ch) ==
    << <<"#">> \o ChainPath(ch) >>
    \o (IF Declares(ch)
        THEN << <<"p", "u", "b", " ", "m", "o", "d", " ">> \o ChildNames[1] \o <<";">>,
                <<>>,
                <<" ", "m", "o", "d", " ">> \o ChildNames[2] \o <<";", " ">> >>
        ELSE << <<" ", " ">> >>)
    \o (IF ch = <<>>
        THEN << <<"u", "s", "e", " ", "s", ":", ":", "i", ";">>,
                <<"u", "s", "e", " ", "s", ":", ":", "{", "x", ",", " ", "y", "}", ";">>,
                <<" ", "}", " ">> >>
        ELSE <<>>)

ChainContent(ch) ==
    IF Len(ch) = 0 THEN Join(ChainLines(ch), <<"\n">>) \o <<"\n">>
    ELSE IF Len(ch) = 1 THEN Join(ChainLines(ch), <<"\r", "\n">>)
    ELSE Join(ChainLines(ch), <<"\n">>)

\* a file that must not be read: the second candidate where the first exists
Decoy == <<"m", "o", "d", " ", "x", ";", "\n">>

ChainName(ch) == IF ch = <<>> THEN RootName ELSE ChildNames[ch[Len(ch)]]
ChainParent(ch) == IF ch = <<>> THEN <<>> ELSE ChainPath(SubSeq(ch, 1, Len(ch) - 1))
FlatPath(ch) == Candidates(ChainParent(ch), ChainName(ch))[1]
DirPath(ch) == Candidates(ChainParent(ch), ChainName(ch))[2]

Layouts == {"flat", "dir", "both"}

\* the files of a tree laid out as name.rs, as name/mod.rs or as both, with
\* the modules of missing left out
TreeFiles(layout, missing) ==
    LET present == Chains \ missing
        flats == IF layout = "dir" THEN {} ELSE {FlatPath(ch) : ch \in present}
        dirs == IF layout = "flat" THEN {} ELSE {DirPath(ch) : ch \in present}
    IN  [p \in flats \cup dirs |->
            IF p \in flats THEN ChainContent(CHOOSE ch \in present : FlatPath(ch) = p)
            ELSE IF layout = "both" THEN Decoy
            ELSE ChainContent(CHOOSE ch \in present : DirPath(ch) = p)]

FileSystems ==
    {TreeFiles(layout, missing) :
        layout \in Layouts, missing \in {{}} \cup {{ch} : ch \in Chains}}

----------------------------------------------------------------------------
(* The lines parse_line and the LineRefTokenizer are run on *)

\* the length of the longest brace content / tokenizer input
MaxLen == 5
\* the length of the longest free-form line
MaxShort == 4
\* the most path segments before the brace group, the most names in it
MaxSegs == 2
MaxNames == 2

Strings(alphabet, n) == UNION {[1..k -> alphabet] : k \in 0..n}

TokAlphabet == {"a", eAcute, " ", ","}
ShortAlphabet == {"a", eAcute, " ", "\t", ";"}

TokInputs == Strings(TokAlphabet, MaxLen)

Idents == {<<"a">>, <<"b", "c">>}
Indents == {<<>>, <<" ">>, <<"\t", " ">>}
Separators == {<<",">>, <<",", " ">>}

RECURSIVE JoinAll(_, _, _)
\* every way to join n items with separators
JoinAll(items, seps, n) ==
    IF n = 1 THEN items
    ELSE {h \o sp \o t : h \in items, sp \in seps, t \in JoinAll(items, seps, n - 1)}

Prefixes == UNION {JoinAll(Idents, {<<":", ":">>}, n) : n \in 1..MaxSegs}
NameLists == UNION {JoinAll(Idents, Separators, n) : n \in 1..MaxNames}

UseKw == <<"u", "s", "e", " ">>

\* use <prefix>::{<n1>, <n2>, ...};
MultiLine(prefix, list) == UseKw \o prefix \o <<":", ":", "{">> \o list \o <<"}", ";">>

StructuredLines ==
    {ind \o MultiLine(p, l) : ind \in Indents, p \in Prefixes, l \in NameLists}
    \cup {ind \o UseKw \o p \o <<";">> \o tr :
            ind \in Indents, p \in Prefixes, tr \in {<<>>, <<" ", ";">>}}
    \cup {ind \o pb \o <<"m", "o", "d", " ">> \o n \o <<";">> \o tr :
            ind \in Indents, pb \in {<<>>, <<"p", "u", "b", " ">>},
            n \in Idents \cup {<<eAcute>>}, tr \in {<<>>, <<" ", ";">>}}

ParseInputs ==
    StructuredLines
    \cup {MultiLine(<<"s">>, c) : c \in TokInputs \ {<<>>}}
    \cup Strings(ShortAlphabet, MaxShort)

----------------------------------------------------------------------------
(* parse_line and the tokenizer as operations *)

\* parse_line(in_line)
Parse ==
    /\ token = <<>>
    /\ token' = <<parse_line(in_line)>>
    /\ UNCHANGED <<in_line, bundle_vars, tok_vars>>

\* Iterator::next returns Some(LineRef)
TokNext ==
    LET r == next(tk)
    IN  /\ ~tk_done
        /\ r.item # <<>>
        /\ tk' = r.t
        /\ tk_out' = tk_out \o r.item
        /\ UNCHANGED <<tk_done, bundle_vars, parse_vars>>

\* Iterator::next returns None
TokEnd ==
    LET r == next(tk)
    IN  /\ ~tk_done
        /\ r.item = <<>>
        /\ tk' = r.t
        /\ tk_done' = TRUE
        /\ UNCHANGED <<tk_out, bundle_vars, parse_vars>>

----------------------------------------------------------------------------
(* Specifications *)

BundleIdle ==
    /\ files = <<>>
    /\ entry_module = RootName
    /\ loaded_tokens = <<>>
    /\ pc = "idle"
    /\ stack = <<>>
    /\ calls = <<>>
    /\ load_result = [status |-> "none", err |-> NoError]
    /\ output = <<>>
    /\ last_op = "new"
    /\ failures = {}

ParseIdle == in_line = <<>> /\ token = <<>>

TokIdle == tk = LineRefTokenizer(<<>>) /\ tk_out = <<>> /\ tk_done = TRUE

\* Bundle::new(entry, ModuleFileSystem) over one of the trees
Init ==
    /\ files \in FileSystems
    /\ entry_module \in EntryNames
    /\ loaded_tokens = <<>>
    /\ pc = "idle"
    /\ stack = <<>>
    /\ calls = <<>>
    /\ load_result = [status |-> "none", err |-> NoError]
    /\ output = <<>>
    /\ last_op = "new"
    /\ failures = {}
    /\ ParseIdle
    /\ TokIdle

Next ==
    \/ \E e \in EntryNames : New(e)
    \/ LoadOpen
    \/ LoadOpenFails
    \/ LoadLine
    \/ LoadDeclaration
    \/ LoadDeclarationFails
    \/ LoadReturn
    \/ LoadDone
    \/ Write

Spec == Init /\ [][Next]_vars

\* one String handed to parse_line, or one LineRefTokenizer over one input
InitSyntax ==
    /\ BundleIdle
    /\ \/ /\ in_line \in ParseInputs
          /\ token = <<>>
          /\ TokIdle
       \/ /\ ParseIdle
          /\ \E input \in TokInputs : tk = LineRefTokenizer(input)
          /\ tk_out = <<>>
          /\ tk_done = FALSE

NextSyntax == Parse \/ TokNext \/ TokEnd

SpecSyntax == InitSyntax /\ [][NextSyntax]_vars

----------------------------------------------------------------------------
(* Claims about parse_line and the LineRefTokenizer, under SpecSyntax *)

\* every LineRef a token holds
TokenRefs(t) ==
    IF t.kind = "DeclareOtherModule" \/ t.kind = "UseModule" THEN {t.name}
    ELSE IF t.kind = "UseManyModules"
    THEN {t.parent} \cup {t.names[i] : i \in 1..Len(t.names)}
    ELSE {t.trimmed_ref}

NameSeqs == UNION {[1..n -> Idents] : n \in 1..MaxNames}

\* C5: for every line `use <prefix>::{<n1>, <n2>, ...};` whose prefix is one
\* or more `::`-separated identifiers, parse_line returns a UseManyModules
\* token whose names resolve, in order, to n1, n2, ... and whose parent
\* resolves to the whole prefix.
C5_MultiImportSpans ==
    token # <<>> =>
        \A p \in Prefixes, ns \in NameSeqs :
            in_line = MultiLine(p, Join(ns, <<",", " ">>)) =>
                /\ token[1].kind = "UseManyModules"
                /\ Len(token[1].names) = Len(ns)
                /\ \A i \in 1..Len(ns) :
                       resolve_unchecked(token[1].names[i], in_line) = <<ns[i]>>
                /\ resolve_unchecked(token[1].parent, in_line) = <<p>>

RECURSIVE TrimStart(_)
TrimStart(l) == IF l # <<>> /\ IsSpace(Head(l)) THEN TrimStart(Tail(l)) ELSE l

RECURSIVE TrimEnd(_)
TrimEnd(l) ==
    IF l # <<>> /\ IsSpace(l[Len(l)]) THEN TrimEnd(SubSeq(l, 1, Len(l) - 1)) ELSE l

\* the line with all leading and trailing white space stripped
Trim(l) == TrimEnd(TrimStart(l))

NoStructuralPattern(l) ==
    PUB_MOD_REGEX(l) = <<>> /\ USE_SINGLE_REGEX(l) = <<>> /\ USE_MULTI_REGEX(l) = <<>>

\* C6: for every line that matches none of the three structural patterns,
\* the empty line and the lines of white space included, parse_line returns
\* an OtherLine whose trimmed_ref resolves to the line with all leading and
\* trailing white space stripped; the empty line yields the span (0, 0).
C6_OtherLineTrimmed ==
    (token # <<>> /\ NoStructuralPattern(in_line)) =>
        /\ token[1].kind = "OtherLine"
        /\ resolve_unchecked(token[1].trimmed_ref, in_line) = <<Trim(in_line)>>
        /\ in_line = <<>> => token[1].trimmed_ref = LineRef(0, 0)

\* the character index at which the field of the i-th LineRef begins: the
\* start of the input, or right after the "," that ended the LineRef before
FieldStart(i) ==
    IF i = 1 THEN 0 ELSE tk_out[i - 1].start + tk_out[i - 1].size + 1

\* the spaces between character index i of l and its next other character
LeadingSpaces(l, i) ==
    (CHOOSE j \in i..Len(l) :
        /\ \A k \in (i + 1)..j : l[k] = " "
        /\ j = Len(l) \/ l[j + 1] # " ") - i

\* C7 as stated: the tokenizer leaves exactly one leading space of a field
\* out of its span (the one right after the delimiter); every further
\* leading space is part of the span.
C7_SkipsOneSpace ==
    \A i \in 1..Len(tk_out) :
        tk_out[i].start =
            FieldStart(i) + (IF nth(tk.line, FieldStart(i)) = <<" ">> THEN 1 ELSE 0)

\* C7 as amended: the tokenizer leaves every leading space of a field out of
\* its span: the span starts (as a character index) after all the spaces
\* that follow the delimiter, and so never begins with a space.
C7_SkipsEverySpace ==
    \A i \in 1..Len(tk_out) :
        /\ tk_out[i].start = FieldStart(i) + LeadingSpaces(tk.line, FieldStart(i))
        /\ tk_out[i].size > 0 => nth(tk.line, tk_out[i].start) # <<" ">>

\* a field with two leading spaces has been tokenized
C7_Witness ==
    \E i \in 1..Len(tk_out) :
        tk_out[i].start >= FieldStart(i) + 2 /\ tk_out[i].size > 0

RECURSIVE Split(_)
\* the fields between the commas of l
Split(l) ==
    LET commas == {k \in 1..Len(l) : l[k] = ","}
    IN  IF commas = {} THEN <<l>>
        ELSE <<SubSeq(l, 1, Min(commas) - 1)>>
             \o Split(SubSeq(l, Min(commas) + 1, Len(l)))

\* a field that is a non-empty name after zero, one or two spaces
IsNameField(f) ==
    LET k == LeadingSpaces(f, 0)
    IN  k <= 2 /\ k < Len(f) /\ \A j \in (k + 1)..Len(f) : f[j] # " "

NameOfField(f) == SubSeq(f, LeadingSpaces(f, 0) + 1, Len(f))

\* C8: for every comma-separated list of non-empty names, each after zero,
\* one or two spaces, the tokenizer yields one span per name, in order, and
\* the spans resolve to the bare names.
C8_SpansResolveToNames ==
    LET fields == Split(tk.line)
    IN  (tk_done /\ tk.line # <<>> /\ \A i \in 1..Len(fields) : IsNameField(fields[i]))
        => /\ Len(tk_out) = Len(fields)
           /\ \A i \in 1..Len(fields) :
                  resolve_unchecked(tk_out[i], tk.line) = <<NameOfField(fields[i])>>

\* C9: every LineRef parse_line or the tokenizer produces ends within its
\* line: start + size <= the length of the line in bytes.
C9_SpansWithinLine ==
    /\ token # <<>> =>
           \A r \in TokenRefs(token[1]) : r.start + r.size <= ByteLen(in_line)
    /\ \A i \in 1..Len(tk_out) :
           tk_out[i].start + tk_out[i].size <= ByteLen(tk.line)

\* a multi import with an empty field and a field after it has been
\* classified, and a tokenizer has yielded a span that ends its input
C9_Witness ==
    \/ /\ token # <<>>
       /\ token[1].kind = "UseManyModules"
       /\ Len(token[1].names) >= 3
       /\ \E i \in 1..Len(token[1].names) : token[1].names[i].size = 0
    \/ \E i \in 1..Len(tk_out) :
           tk_out[i].start + tk_out[i].size = ByteLen(tk.line) /\ Len(tk_out) >= 2

----------------------------------------------------------------------------
(* Claims about Bundle::load and Bundle::write, under Spec *)

\* the module a line declares, <<name>>, or <<>> when it declares none
DeclaredName(line) ==
    LET m == PUB_MOD_REGEX(line)
    IN  IF m = <<>> THEN <<>> ELSE <<SubSeq(line, m[1].g2.lo + 1, m[1].g2.hi)>>

RECURSIVE SlashPath(_)
\* "/m1/../mk" for the modules m1 .. mk
SlashPath(names) ==
    IF names = <<>> THEN <<>>
    ELSE <<"/">> \o Head(names) \o SlashPath(Tail(names))

\* the file the Resolver gives for the module name declared below the chain
FileOf(chain, name) == open_submodule(files, SlashPath(chain), name)

RECURSIVE Resolvable(_, _)
\* every module declared in these lines, and below, is found
Resolvable(chain, ls) ==
    \A i \in 1..Len(ls) :
        LET d == DeclaredName(ls[i])
        IN  d # <<>> =>
                /\ FileOf(chain, d[1]).ok
                /\ Resolvable(Append(chain, d[1]), lines(FileOf(chain, d[1]).reader))

EntryFile == open_submodule(files, <<>>, entry_module)

FullyResolvable == EntryFile.ok /\ Resolvable(<<>>, lines(EntryFile.reader))

RECURSIVE Render(_, _)
\* render of the claim: declarations replaced by the block of their file,
\* every other line as it is, each followed by a newline
Render(chain, ls) ==
    IF ls = <<>> THEN <<>>
    ELSE LET d == DeclaredName(Head(ls))
         IN  (IF d # <<>>
              THEN <<"p", "u", "b", " ", "m", "o", "d", " ">> \o as_bytes(d[1])
                   \o <<"{", "\n">>
                   \o Render(Append(chain, d[1]), lines(FileOf(chain, d[1]).reader))
                   \o <<"}", "\n">>
              ELSE as_bytes(Head(ls)) \o <<"\n">>)
             \o Render(chain, Tail(ls))

\* C1: when the Resolver resolves the whole tree, load succeeds, and a write
\* after a successful load emits exactly render(entry): a `pub mod n{` line,
\* the rendered file of n and a `}` line for each declaration, every other
\* line unchanged, all in the order of the files.
C1_WriteEmitsRender ==
    /\ (pc = "idle" /\ last_op = "write" /\ load_result.status = "ok")
           => output = Render(<<>>, lines(EntryFile.reader))
    /\ (pc = "idle" /\ last_op = "load" /\ FullyResolvable)
           => load_result.status = "ok"

\* a tree with a block inside a block has been loaded and written
C1_Witness ==
    /\ pc = "idle" /\ last_op = "write" /\ load_result.status = "ok"
    /\ \E i \in 1..Len(loaded_tokens) :
           /\ loaded_tokens[i].kind = "Module"
           /\ \E j \in 1..Len(loaded_tokens[i].tokens) :
                  /\ loaded_tokens[i].tokens[j].kind = "Module"
                  /\ loaded_tokens[i].tokens[j].tokens # <<>>

LastCall == calls[Len(calls)]

\* C2: when the Resolver does not find the entry module or a declared
\* module, load returns a NotFound failure, nothing of the activations is
\* kept, the token tree holds none of the tokens read, and a write emits
\* nothing.
C2_FailedLoadKeepsNothing ==
    /\ (pc = "idle" /\ calls # <<>>
            /\ ~open_submodule(files, LastCall.relative_path, LastCall.module_name).ok)
           => load_result.status = "err"
    /\ (pc = "idle" /\ load_result.status = "err")
           => /\ load_result.err.kind = "NotFound"
              /\ stack = <<>>
              /\ loaded_tokens = <<>>
              /\ last_op = "write" => output = <<>>

\* a load failed below the entry file, after lines were read, and a write followed
C2_Witness ==
    /\ pc = "idle" /\ last_op = "write" /\ load_result.status = "err"
    /\ Len(calls) > 2
    /\ LastCall.relative_path # <<>>

\* C3 as stated: the error load returns tells the relative path and the
\* module name that failed: failures on different (relative path, module
\* name) pairs return different errors.
C3_ErrorTellsModule ==
    \A f \in failures, g \in failures :
        (f.relative_path # g.relative_path \/ f.module_name # g.module_name)
            => f.err # g.err

\* C3 as amended: the error load returns is the error open_submodule
\* returned, unchanged: the NotFound error of the Resolver, which names
\* neither the relative path nor the module.
C3_ErrorIsResolversError ==
    /\ \A f \in failures : f.err = f.resolver_err /\ f.err = NotFoundError
    /\ (pc = "idle" /\ load_result.status = "err") => load_result.err = NotFoundError

\* loads have failed on two different modules, one of them below the entry file
C3_Witness ==
    \E f \in failures, g \in failures :
        f.module_name # g.module_name /\ f.relative_path # <<>>

RECURSIVE PreOrder(_, _)
\* the declarations of these lines and of the files below them, depth first,
\* in the order of declaration, each with the path of the file that declares it
PreOrder(chain, ls) ==
    IF ls = <<>> THEN <<>>
    ELSE LET d == DeclaredName(Head(ls))
         IN  (IF d # <<>>
              THEN <<[relative_path |-> SlashPath(chain), module_name |-> d[1]]>>
                   \o PreOrder(Append(chain, d[1]), lines(FileOf(chain, d[1]).reader))
              ELSE <<>>)
             \o PreOrder(chain, Tail(ls))

ExpectedCalls ==
    <<[relative_path |-> <<>>, module_name |-> entry_module]>>
    \o PreOrder(<<>>, lines(EntryFile.reader))

IsPrefix(a, b) == Len(a) <= Len(b) /\ a = SubSeq(b, 1, Len(a))

\* the modules the activations below the k-th one were entered through
EnteredModules(k) == [i \in 1..(k - 1) |-> stack[i].module_name]

\* C4: in a load of a tree the Resolver resolves, the calls of
\* open_submodule are, at every moment, the beginning of the depth-first
\* pre-order traversal of the declarations, and all of it when load returns;
\* the entry module is opened with the empty context, and the file entered
\* through m1 .. mk is loaded with the context "/m1/../mk".
C4_CallsArePreOrder ==
    /\ (pc = "loading" /\ FullyResolvable) => IsPrefix(calls, ExpectedCalls)
    /\ (pc = "idle" /\ load_result.status = "ok" /\ calls # <<>>)
           => calls = ExpectedCalls
    /\ \A k \in 1..Len(stack) :
           stack[k].relative_path = SlashPath(EnteredModules(k))

\* a load has succeeded that opened a module declared two levels below the
\* entry file
C4_Witness ==
    /\ pc = "idle" /\ load_result.status = "ok"
    /\ \E i \in 1..Len(calls) :
           \E n \in 1..Len(ChildNames), m \in 1..Len(ChildNames) :
               calls[i].relative_path = SlashPath(<<ChildNames[n], ChildNames[m]>>)

\* C10: between two Bundle::new, a token tree that is not empty never
\* changes (a second load stores an equal tree, it does not append), a load
\* that fails and a write leave the tree as it was, and a write right after a
\* write emits the same output.
C10_TreeIsStable ==
    [][last_op' # "new" =>
          /\ loaded_tokens # <<>> => loaded_tokens' = loaded_tokens
          /\ load_result'.status = "err" => loaded_tokens' = loaded_tokens
          /\ last_op' = "write" => loaded_tokens' = loaded_tokens
          /\ (last_op = "write" /\ last_op' = "write") => output' = output]_vars

\* a tree was loaded and written, and then a second load has succeeded
C10_Witness ==
    /\ pc = "idle" /\ last_op = "load" /\ load_result.status = "ok"
    /\ output # <<>>
    /\ loaded_tokens # <<>>

====
